---- MODULE Spec2Model ----
(***************************************************************************)
(* The user-evict-leader scheduler plugin (src/unnamed/part_000): its      *)
(* config store (store id -> key ranges, guarded by an RWMutex), the       *)
(* lifecycle hooks, the schedule tick and the HTTP control plane           *)
(* (update / list / delete), with the cluster pause/resume collaborator    *)
(* and the durable config storage it calls.                                *)
(*                                                                         *)
(* Go strings and []byte keys are sequences of byte values (Nat).          *)
(***************************************************************************)
EXTENDS Integers, Sequences, FiniteSets, TLC

\* ------------------------------------------------------------- bounds
\* store ids are 0..MaxStore (0 is the zero value of the handler's `id`)
MaxStore == 1
\* control-plane requests received in a run; any number of them may be in
\* flight at once
MaxReq == 2

Stores == 0..MaxStore
\* net/http serves each request on a goroutine of its own: the k-th request
\* received runs on goroutine k
Handlers == 1..MaxReq
\* the goroutine of the orchestrator's timer (Schedule, PrepareConfig, CleanConfig)
Ticker == 0
\* "no goroutine" for the lock's writer field
NoProc == -1

\* ------------------------------------------------------------- strings
\* the bytes url.QueryUnescape treats specially: '%', '+' and ' '
PercentByte == 37
PlusByte == 43
SpaceByte == 32

\* ishex / unhex of net/url, used by url.QueryUnescape
IsHex(b) == (b >= 48 /\ b <= 57) \/ (b >= 97 /\ b <= 102) \/ (b >= 65 /\ b <= 70)
UnHex(b) == IF b >= 48 /\ b <= 57 THEN b - 48
            ELSE IF b >= 97 /\ b <= 102 THEN b - 87
            ELSE b - 55

\* url.QueryUnescape: "%XY" -> byte 16*X+Y, "+" -> " ", a "%" not followed by
\* two hex digits is an error.  Result: [err, val].
RECURSIVE QueryUnescape(_)
QueryUnescape(s) ==
    IF s = <<>> THEN [err |-> FALSE, val |-> <<>>]
    ELSE IF Head(s) = PercentByte THEN
        IF Len(s) >= 3 /\ IsHex(s[2]) /\ IsHex(s[3]) THEN
            LET rest == QueryUnescape(SubSeq(s, 4, Len(s)))
            IN  [err |-> rest.err,
                 val |-> IF rest.err THEN <<>>
                         ELSE <<16 * UnHex(s[2]) + UnHex(s[3])>> \o rest.val]
        ELSE [err |-> TRUE, val |-> <<>>]
    ELSE LET rest == QueryUnescape(Tail(s))
             c == IF Head(s) = PlusByte THEN SpaceByte ELSE Head(s)
         IN  [err |-> rest.err,
              val |-> IF rest.err THEN <<>> ELSE <<c>> \o rest.val]

\* strconv.ParseUint(s, 10, 64): a non-empty string of decimal digits.
IsDigit(b) == b >= 48 /\ b <= 57
RECURSIVE DigitsValue(_, _)
DigitsValue(s, acc) ==
    IF s = <<>> THEN acc ELSE DigitsValue(Tail(s), 10 * acc + (Head(s) - 48))
ParseUint(s) ==
    IF s = <<>> \/ \E i \in 1..Len(s) : ~IsDigit(s[i])
    THEN [err |-> TRUE, val |-> 0]
    ELSE [err |-> FALSE, val |-> DigitsValue(s, 0)]

\* strconv.FormatUint(id, 10)
RECURSIVE FormatUint(_)
FormatUint(n) ==
    IF n < 10 THEN <<48 + n>> ELSE FormatUint(n \div 10) \o <<48 + (n % 10)>>

\* keyutil.NewKeyRange(startKey, endKey)
NewKeyRange(startKey, endKey) == [StartKey |-> startKey, EndKey |-> endKey]

\* a variant that takes each pair as (end, start)
RECURSIVE KeyRangesLoopSwapped(_, _)
KeyRangesLoopSwapped(args, ranges) ==
    IF Len(args) > 1 THEN
        LET startKey == QueryUnescape(args[1])
            endKey == QueryUnescape(args[2])
        IN  IF startKey.err \/ endKey.err
            THEN [err |-> TRUE, ranges |-> <<>>]
            ELSE KeyRangesLoopSwapped(SubSeq(args, 3, Len(args)),
                                      Append(ranges, NewKeyRange(endKey.val, startKey.val)))
    ELSE [err |-> FALSE, ranges |-> ranges]

\* getKeyRanges: consume the arguments two at a time, unescaping each; a single
\* leftover argument is dropped; no pair at all gives the whole-keyspace range.
RECURSIVE KeyRangesLoop(_, _)
KeyRangesLoop(args, ranges) ==
    IF Len(args) > 1 THEN
        LET startKey == QueryUnescape(args[1])
            endKey == QueryUnescape(args[2])
        IN  IF startKey.err \/ endKey.err
            THEN [err |-> TRUE, ranges |-> <<>>]
            ELSE KeyRangesLoop(SubSeq(args, 3, Len(args)),
                               Append(ranges, NewKeyRange(startKey.val, endKey.val)))
    ELSE [err |-> FALSE, ranges |-> ranges]

\* a variant without the whole-keyspace default
getKeyRangesNoDefault(args) == KeyRangesLoop(args, <<>>)

getKeyRanges(args) ==
    LET r == KeyRangesLoop(args, <<>>)
    IN  IF r.err THEN r
        ELSE IF Len(r.ranges) = 0
             THEN [err |-> FALSE, ranges |-> <<NewKeyRange(<<>>, <<>>)>>]
             ELSE r

\* The argument checks shared by the slice decoder (init) and BuildWithArgs:
\* the store id then the ranges.  Result: [err, id, ranges].
ParseArgs(args) ==
    IF Len(args) < 1 THEN [err |-> TRUE, id |-> 0, ranges |-> <<>>]
    ELSE LET id == ParseUint(args[1])
             rs == getKeyRanges(Tail(args))
         IN  IF id.err \/ rs.err
             THEN [err |-> TRUE, id |-> 0, ranges |-> <<>>]
             ELSE [err |-> FALSE, id |-> id.val, ranges |-> rs.ranges]

\* map assignment m[id] = v and delete(m, id) on a map held as a function
MapSet(m, id, v) == [k \in DOMAIN m \cup {id} |-> IF k = id THEN v ELSE m[k]]
MapDelete(m, id) == [k \in DOMAIN m \ {id} |-> m[k]]
EmptyMap == [k \in {} |-> <<>>]

\* getRanges(id): the store's keys flattened to start, end, start, end, ...
\* (the nil slice of an absent store gives no strings)
RECURSIVE FlattenRanges(_)
FlattenRanges(rs) ==
    IF rs = <<>> THEN <<>>
    ELSE <<Head(rs).StartKey, Head(rs).EndKey>> \o FlattenRanges(Tail(rs))
getRanges(m, id) == IF id \in DOMAIN m THEN FlattenRanges(m[id]) ELSE <<>>

\* ------------------------------------------------------------- inputs
\* command-line arguments the scheduler is constructed from (SchedulerArgs
\* gives "1"; ranges may follow, percent-escaped):
\* "1" | "1" "a" "m" | "1" "%25" "m" | "1" "%2B" "m"
InitArgs == { <<<<49>>>>,
              <<<<49>>, <<97>>, <<109>>>>,
              <<<<49>>, <<37, 50, 53>>, <<109>>>>,
              <<<<49>>, <<37, 50, 66>>, <<109>>>> }

\* the "ranges" member of an update's JSON body: absent, or an array of strings
NoRanges == <<"absent">>
\* ["a", "m"] and ["n", "z"]
RangeInputs == { NoRanges, <<"array", <<<<97>>, <<109>>>>>>,
                 <<"array", <<<<110>>, <<122>>>>>> }

\* bodies of POST /config: not JSON at all, or an object with an optional
\* numeric store_id and optional ranges
UpdateInputs ==
    { [json |-> FALSE, hasId |-> FALSE, id |-> 0, ranges |-> NoRanges] }
    \cup [json : {TRUE}, hasId : {FALSE}, id : {0}, ranges : RangeInputs]
    \cup [json : {TRUE}, hasId : {TRUE}, id : Stores, ranges : RangeInputs]

\* the {store_id} path parameter of DELETE /delete/{store_id}: a store id, or "x"
DeleteInputs == { FormatUint(s) : s \in Stores } \cup { <<120>> }

\* argument lists for the slice decoder and for BuildWithArgs: nothing at all,
\* or a first argument (a store id, "x" or "-1") followed by up to MaxArgs
\* range arguments out of "a", "%2B" (an escaped "+") and "%" (not an escape)
MaxArgs == 4
IdArgs == { FormatUint(s) : s \in Stores } \cup { <<120>>, <<45, 49>> }
RangeArgs == { <<97>>, <<37, 50, 66>>, <<37>> }
ArgLists ==
    { <<>> } \cup
    { <<i>> \o r : i \in IdArgs, r \in UNION { [1..n -> RangeArgs] : n \in 0..MaxArgs } }

\* input["ranges"].([]string): encoding/json decodes a JSON array held in a
\* map[string]any into []any, so the assertion to []string never succeeds
AssertStringSlice(r) == [ok |-> FALSE, val |-> <<>>]

\* ------------------------------------------------------------- state
VARIABLES
    conf,         \* conf.StoreIDWitRanges: store id -> sequence of key ranges
    durable,      \* the mapping held by the last saved scheduler config record
    paused,       \* cluster: stores whose inbound leader transfer is paused
    pauseCalls,   \* PauseLeaderTransfer calls issued, per store
    pauseFails,   \* PauseLeaderTransfer calls that returned an error, per store
    resumeCalls,  \* ResumeLeaderTransfer calls issued, per store
    saveCalls,    \* SaveSchedulerConfig calls issued
    mu,           \* conf.mu: [w: the goroutine holding Lock, r: those holding RLock]
    phase,        \* "new" (constructed), "running" (prepared), "stopped" (cleaned)
    prepErr,      \* whether PrepareConfig returned an error
    pc,           \* per handler goroutine: where its request stands
    loc,          \* per handler goroutine: the request's local variables
    last,         \* the response written last, by any handler
    log,          \* the requests answered while the control plane has been busy
    base,         \* the shared state when the control plane was last idle
    nreq,         \* control-plane requests received
    tpc,          \* the tick goroutine: "idle", "s_enter" (in Schedule, before
                  \* RLock) or "s_loop" (in Schedule, holding RLock)
    ops,          \* the operators returned by the last Schedule call
    prepLog,      \* the pause calls PrepareConfig made, in order: [id, ok]
    prepRet,      \* what PrepareConfig returned: nil, or the error of a call
    gate,         \* the last IsScheduleAllowed call: [count, limit, allowed]
    limitCounter, \* the operator-limit counter of this scheduler type
    asked,        \* per goroutine: the "ranges" member of the update body it was
                  \* given, kept when requests are served one at a time
    call          \* the argument list handed to the slice decoder or to
                  \* BuildWithArgs called on its own: [by, args, err]

vars == <<conf, durable, paused, pauseCalls, pauseFails, resumeCalls, saveCalls, mu,
          phase, prepErr,
          pc, loc, last, log, base, nreq, tpc, ops,
          prepLog, prepRet, gate, limitCounter, asked, call>>

cluster == <<paused, pauseCalls, pauseFails, resumeCalls>>
storage == <<durable, saveCalls>>
tick == <<tpc, ops>>
orch == <<prepLog, prepRet, gate, limitCounter, asked, call>>

\* snap: the mapping as it stood when Clone ran (the clone itself holds the
\* live map), or the mapping Persist encoded
LocInit == [id |-> 0, ok |-> FALSE, exists |-> FALSE, args |-> <<>>,
            saved |-> <<>>, didPause |-> FALSE, snap |-> EmptyMap]
NoResp == [p |-> 0, op |-> "none", id |-> 0, code |-> 0, body |-> "none",
           why |-> "none", data |-> EmptyMap]
\* the state the requests share: the config, the record and the cluster's
Shared == [conf |-> conf, durable |-> durable, paused |-> paused,
           pauseCalls |-> pauseCalls, resumeCalls |-> resumeCalls]
NoBase == [conf |-> EmptyMap, durable |-> EmptyMap, paused |-> {},
           pauseCalls |-> [s \in Stores |-> 0], resumeCalls |-> [s \in Stores |-> 0]]

\* the slice decoder applied to a fresh config (lines 54-74, 78-79)
DecodeArgs(args) ==
    LET a == ParseArgs(args)
    IN  IF a.err THEN EmptyMap ELSE MapSet(EmptyMap, a.id, a.ranges)

\* a nil error, and the error returned by the pause call for store id
NoErr == [failed |-> FALSE, id |-> 0]
ErrOf(id) == [failed |-> TRUE, id |-> id]

\* no argument list handed over yet
NoCall == [by |-> "none", args |-> <<>>, err |-> FALSE]

\* the record of a gate that has not been asked yet
NoGate == [count |-> 0, limit |-> 0, allowed |-> FALSE, asked |-> FALSE]

\* the scheduler as constructed (lines 77-84) with the mapping its decoder gave
Constructed(m) ==
    /\ conf = m
    /\ durable = m
    /\ paused = {}
    /\ pauseCalls = [s \in Stores |-> 0]
    /\ pauseFails = [s \in Stores |-> 0]
    /\ resumeCalls = [s \in Stores |-> 0]
    /\ saveCalls = 0
    /\ mu = [w |-> NoProc, r |-> {}]
    /\ phase = "new"
    /\ prepErr = FALSE
    /\ pc = [p \in Handlers |-> "idle"]
    /\ loc = [p \in Handlers |-> LocInit]
    /\ last = NoResp
    /\ log = <<>>
    /\ base = NoBase
    /\ nreq = 0
    /\ tpc = "idle"
    /\ ops = {}
    /\ prepLog = <<>>
    /\ prepRet = NoErr
    /\ gate = NoGate
    /\ limitCounter = 0
    /\ asked = [p \in Handlers |-> NoRanges]
    /\ call = NoCall

\* constructed from command-line arguments (the slice decoder)
Init == \E args \in InitArgs : Constructed(DecodeArgs(args))

\* Constructed from the saved record (the constructor takes any decoder): the
\* mapping may hold any stores, each with the whole keyspace or the range (a, m).
PersistedRanges == { <<NewKeyRange(<<>>, <<>>)>>, <<NewKeyRange(<<97>>, <<109>>)>> }
PersistedConfigs ==
    UNION { [S -> PersistedRanges] : S \in SUBSET Stores }
InitPersisted == \E m \in PersistedConfigs : Constructed(m)

\* ------------------------------------------------------------- the lock
\* a variant of Lock that does not wait for the readers
CanLockIgnoresReaders == mu.w = NoProc
\* sync.RWMutex (not reentrant): Lock needs no holder at all, RLock no writer
CanLock == mu.w = NoProc /\ mu.r = {}
CanRLock == mu.w = NoProc

\* ------------------------------------------------------------- collaborators
\* The collaborators' own code is outside this plugin; what a call does to
\* them follows the interface the plugin is written against: inbound leader
\* transfer is a per-store flag, and the storage keeps, under the scheduler's
\* name, the bytes saved last.
PauseEffect(id, ok) == IF ok THEN paused \cup {id} ELSE paused
ResumeEffect(id) == paused \ {id}
SaveEffect(data, ok) == IF ok THEN data ELSE durable

\* a call cluster.PauseLeaderTransfer(id, constant.In), which returns an error
\* or not
PauseLeaderTransfer(id, ok) ==
    /\ pauseCalls' = [pauseCalls EXCEPT ![id] = @ + 1]
    /\ pauseFails' = IF ok THEN pauseFails ELSE [pauseFails EXCEPT ![id] = @ + 1]
    /\ paused' = PauseEffect(id, ok)
    /\ UNCHANGED resumeCalls

\* a call cluster.ResumeLeaderTransfer(id, constant.In)
ResumeLeaderTransfer(id) ==
    /\ resumeCalls' = [resumeCalls EXCEPT ![id] = @ + 1]
    /\ paused' = ResumeEffect(id)
    /\ UNCHANGED <<pauseCalls, pauseFails>>

\* the call storage.SaveSchedulerConfig(EvictLeaderName, data) of Persist, data
\* being the encoding of the config Persist made
SaveSchedulerConfig(data, ok) ==
    /\ saveCalls' = saveCalls + 1
    /\ durable' = SaveEffect(data, ok)

\* ------------------------------------------------------------- responses
AllIdle == \A q \in Handlers : pc[q] = "idle"

\* a request is received (requests are served once the scheduler runs) and
\* starts on the next goroutine
Begin(p) ==
    /\ p = nreq + 1
    /\ pc[p] = "idle"
    /\ phase = "running"
    /\ nreq' = nreq + 1

\* bookkeeping of a step that begins a request and does not answer it: the
\* shared state is remembered when the control plane was idle
Started == /\ base' = IF AllIdle THEN Shared ELSE base
           /\ UNCHANGED <<last, log>>

\* bookkeeping of a step inside a request
Quiet == UNCHANGED <<last, log, base, nreq>>

\* handler.rd.JSON(w, code, body): the request is answered and the goroutine
\* ends; the answered requests are logged until the control plane is idle again
Respond(p, op, id, code, body, why, data) ==
    /\ last' = [p |-> p, op |-> op, id |-> id, code |-> code, body |-> body,
                why |-> why, data |-> data]
    /\ pc' = [pc EXCEPT ![p] = "idle"]
    /\ loc' = [loc EXCEPT ![p] = LocInit]
    /\ IF \A q \in Handlers \ {p} : pc[q] = "idle"
       THEN log' = <<>> /\ base' = NoBase
       ELSE /\ log' = Append(log, [op |-> op, ok |-> loc[p].ok, id |-> id,
                                   code |-> code, why |-> why])
            /\ UNCHANGED base

Goto(p, label) == pc' = [pc EXCEPT ![p] = label]

\* no request but p's is being served
OthersIdle(p) == \A q \in Handlers \ {p} : pc[q] = "idle"

\* ------------------------------------------------------------- lifecycle
\* the orders in which `for id := range m` may visit the stores in S
RECURSIVE Orders(_)
Orders(S) ==
    IF S = {} THEN {<<>>}
    ELSE UNION { { <<s>> \o o : o \in Orders(S \ {s}) } : s \in S }

\* a variant of the loop that returns at the first failed call
RECURSIVE PrepareLoopStops(_, _, _)
PrepareLoopStops(order, failed, acc) ==
    IF order = <<>> THEN acc
    ELSE IF Head(order) \in failed
         THEN [calls |-> Append(acc.calls, [id |-> Head(order), ok |-> FALSE]),
               res |-> ErrOf(Head(order))]
         ELSE PrepareLoopStops(Tail(order), failed,
                  [acc EXCEPT !.calls = Append(@, [id |-> Head(order), ok |-> TRUE])])

\* lines 189-195: the loop of PrepareConfig over the stores in `order`, the
\* calls for the stores in `failed` returning an error: every store is
\* called, and res is overwritten by each error.  acc: [calls, res].
RECURSIVE PrepareLoop(_, _, _)
PrepareLoop(order, failed, acc) ==
    IF order = <<>> THEN acc
    ELSE LET id == Head(order)
             ok == id \notin failed
         IN  PrepareLoop(Tail(order), failed,
                 [calls |-> Append(acc.calls, [id |-> id, ok |-> ok]),
                  res |-> IF ok THEN acc.res ELSE ErrOf(id)])

\* the calls of a log made for store s, and those of them that failed
CallsFor(calls, s) == Cardinality({ i \in 1..Len(calls) : calls[i].id = s })
FailsFor(calls, s) == Cardinality({ i \in 1..Len(calls) : calls[i].id = s /\ ~calls[i].ok })

\* PrepareConfig: under RLock, one pause call per configured store, each free
\* to fail; the error of the last failing call is returned
PrepareConfig ==
    /\ phase = "new"
    /\ CanRLock
    /\ \E order \in Orders(DOMAIN conf) : \E failed \in SUBSET DOMAIN conf :
        LET r == PrepareLoop(order, failed, [calls |-> <<>>, res |-> NoErr])
        IN  /\ pauseCalls' = [s \in Stores |-> pauseCalls[s] + CallsFor(r.calls, s)]
            /\ pauseFails' = [s \in Stores |-> pauseFails[s] + FailsFor(r.calls, s)]
            /\ paused' = paused \cup { s \in Stores :
                                        CallsFor(r.calls, s) > FailsFor(r.calls, s) }
            /\ prepLog' = r.calls
            /\ prepRet' = r.res
            /\ prepErr' = r.res.failed
    /\ phase' = "running"
    /\ UNCHANGED <<conf, storage, resumeCalls, mu, pc, loc, last, log, base, nreq, tick,
                   gate, limitCounter, asked, call>>

\* a variant of the loop that resumes every store of the cluster
CleanLoopAllStores(m) == Stores

\* lines 202-204: the stores the loop of CleanConfig calls
\* ResumeLeaderTransfer for, once each: the keys of the map
CleanLoop(m) == DOMAIN m

\* CleanConfig: under RLock, one resume call per configured store
CleanConfig ==
    /\ phase = "running"
    /\ tpc = "idle"
    /\ CanRLock
    /\ resumeCalls' = [s \in Stores |->
                         IF s \in CleanLoop(conf) THEN resumeCalls[s] + 1
                         ELSE resumeCalls[s]]
    /\ paused' = paused \ CleanLoop(conf)
    /\ phase' = "stopped"
    /\ UNCHANGED <<conf, storage, pauseCalls, pauseFails, mu, prepErr, orch, pc, loc, last,
                   log, base, nreq, tick>>

\* ------------------------------------------------------------- build
\* a variant that leaves an empty mapping behind when the arguments are rejected
BuildMapClearsOnError(m, a) == IF a.err THEN EmptyMap ELSE MapSet(m, a.id, a.ranges)

\* lines 107-122 (and 56-73): the map after the argument checks gave a: only
\* when every check passed is the store's entry assigned
BuildMap(m, a) == IF a.err THEN m ELSE MapSet(m, a.id, a.ranges)

\* the slice decoder (lines 55-73) applied to the config the constructor has
\* just made (line 78)
Decode ==
    /\ call.by = "none"
    /\ phase = "new"
    /\ DOMAIN conf = {}
    /\ \E args \in ArgLists :
        LET a == ParseArgs(args)
        IN  /\ conf' = BuildMap(conf, a)
            /\ call' = [by |-> "decoder", args |-> args, err |-> a.err]
    /\ UNCHANGED <<storage, cluster, mu, phase, prepErr, pc, loc, last, log, base, nreq,
                   tick, prepLog, prepRet, gate, limitCounter, asked>>

\* BuildWithArgs (lines 106-123) called on its own with any argument list
BuildWithArgs ==
    /\ call.by = "none"
    /\ CanLock
    /\ \E args \in ArgLists :
        LET a == ParseArgs(args)
        IN  /\ conf' = BuildMap(conf, a)
            /\ call' = [by |-> "build", args |-> args, err |-> a.err]
    /\ UNCHANGED <<storage, cluster, mu, phase, prepErr, pc, loc, last, log, base, nreq,
                   tick, prepLog, prepRet, gate, limitCounter, asked>>

\* ------------------------------------------------------------- update
\* updateConfig, lines 253-270: decode the body, take store_id, look the store
\* up in the map (no lock is held) and start the argument list
UpdateStart(p, in) ==
    LET id == IF in.hasId THEN in.id ELSE 0
        exists == in.hasId /\ id \in DOMAIN conf
        args == IF in.hasId THEN <<FormatUint(id)>> ELSE <<>>
        ranges == AssertStringSlice(in.ranges)
        next == IF in.hasId /\ ~exists THEN "u_pause"
                ELSE IF ~ranges.ok /\ exists THEN "u_getranges"
                ELSE "u_build"
    IN  IF ~in.json
        THEN /\ Begin(p)
             /\ Respond(p, "update", 0, 400, "error", "json", EmptyMap)
             /\ UNCHANGED <<conf, storage, cluster, mu, phase, prepErr, prepLog,
                         prepRet, gate, limitCounter, call, tick>>
        ELSE /\ Begin(p)
             /\ Started
             /\ loc' = [loc EXCEPT ![p] =
                          [LocInit EXCEPT !.id = id, !.ok = in.hasId, !.exists = exists,
                                          !.args = IF ranges.ok THEN args \o ranges.val
                                                   ELSE args]]
             /\ Goto(p, next)
             /\ UNCHANGED <<conf, storage, cluster, mu, phase, prepErr, prepLog,
                         prepRet, gate, limitCounter, call, tick>>

\* a variant in which the failed pause does not stop the insert
UpdatePauseFailedInserts(p) ==
    /\ Respond(p, "update", loc[p].id, 500, "error", "pause", EmptyMap)
    /\ conf' = MapSet(conf, loc[p].id, <<NewKeyRange(<<>>, <<>>)>>)
    /\ UNCHANGED <<nreq, storage, mu, phase, prepErr, orch, tick>>

\* lines 264-267: the pause call for a store the lookup did not find; on
\* failure the request is answered 500
UpdatePauseFailed(p) ==
    /\ Respond(p, "update", loc[p].id, 500, "error", "pause", EmptyMap)
    /\ UNCHANGED nreq
    /\ UNCHANGED <<conf, storage, mu, phase, prepErr, orch, tick>>

UpdatePause(p) ==
    /\ pc[p] = "u_pause"
    /\ \E ok \in BOOLEAN :
        /\ PauseLeaderTransfer(loc[p].id, ok)
        /\ IF ok
           THEN /\ loc' = [loc EXCEPT ![p].didPause = TRUE]
                /\ Goto(p, "u_build")
                /\ Quiet
                /\ UNCHANGED <<conf, storage, mu, phase, prepErr, orch, tick>>
           ELSE UpdatePauseFailed(p)

\* lines 275-277: no ranges in the request and the store was found: take its
\* current ranges (getRanges, under RLock)
UpdateGetRanges(p) ==
    /\ pc[p] = "u_getranges"
    /\ CanRLock
    /\ loc' = [loc EXCEPT ![p].args = @ \o getRanges(conf, loc[p].id)]
    /\ Goto(p, "u_build")
    /\ Quiet
    /\ UNCHANGED <<conf, storage, cluster, mu, phase, prepErr, orch, tick>>

\* lines 280-286: BuildWithArgs failed: under Lock, resume store `id`; answer 400
UpdateBuildFailed(p) ==
    /\ ResumeLeaderTransfer(loc[p].id)
    /\ Respond(p, "update", loc[p].id, 400, "error", "build", EmptyMap)
    /\ UNCHANGED nreq
    /\ UNCHANGED <<conf, storage, mu, phase, prepErr, orch, tick>>

\* lines 119-121: BuildWithArgs succeeded: under Lock, the store's entry is set
UpdateBuildDone(p, a) ==
    /\ conf' = MapSet(conf, a.id, a.ranges)
    /\ Goto(p, "u_persist")
    /\ Quiet
    /\ UNCHANGED <<storage, cluster, mu, phase, prepErr, orch, loc, tick>>

\* line 279: BuildWithArgs(args); both outcomes take the exclusive lock
UpdateBuild(p) ==
    /\ pc[p] = "u_build"
    /\ CanLock
    /\ LET a == ParseArgs(loc[p].args)
       IN  IF a.err THEN UpdateBuildFailed(p) ELSE UpdateBuildDone(p, a)

\* lines 287-296: after Persist: answer 200, or go on to undo the update
UpdateAfterPersist(p, saved) ==
    IF saved
    THEN /\ Respond(p, "update", loc[p].id, 200, "null", "ok", EmptyMap)
         /\ UNCHANGED <<nreq, conf, cluster, phase, prepErr, orch, tick>>
    ELSE /\ Goto(p, "u_rollback")
         /\ loc' = [loc EXCEPT ![p].snap = EmptyMap]
         /\ Quiet
         /\ UNCHANGED <<conf, cluster, phase, prepErr, orch, tick>>

\* lines 289-290: the save failed: Lock and delete the store's entry
UpdateRollback(p) ==
    /\ pc[p] = "u_rollback"
    /\ CanLock
    /\ mu' = [mu EXCEPT !.w = p]
    /\ conf' = MapDelete(conf, loc[p].id)
    /\ Goto(p, "u_resume")
    /\ Quiet
    /\ UNCHANGED <<storage, cluster, phase, prepErr, orch, loc, tick>>

\* lines 291-294: resume the store, Unlock, answer 500
UpdateRollbackResume(p) ==
    /\ pc[p] = "u_resume"
    /\ ResumeLeaderTransfer(loc[p].id)
    /\ mu' = [mu EXCEPT !.w = NoProc]
    /\ Respond(p, "update", loc[p].id, 500, "error", "save", EmptyMap)
    /\ UNCHANGED <<nreq, conf, storage, phase, prepErr, orch, tick>>

\* ------------------------------------------------------------- delete
\* deleteConfig, lines 305-310: parse the path parameter
DeleteStart(p, idStr) ==
    LET id == ParseUint(idStr)
    IN  IF id.err
        THEN /\ Begin(p)
             /\ Respond(p, "delete", 0, 400, "error", "parse", EmptyMap)
             /\ UNCHANGED <<conf, storage, cluster, mu, phase, prepErr, orch, tick>>
        ELSE /\ Begin(p)
             /\ Started
             /\ loc' = [loc EXCEPT ![p] = [LocInit EXCEPT !.id = id.val, !.ok = TRUE]]
             /\ Goto(p, "d_lock")
             /\ UNCHANGED <<conf, storage, cluster, mu, phase, prepErr, orch, tick>>

\* a variant in which the resume is issued before the lookup's result is used
DeleteAbsentResumes(p) ==
    /\ Respond(p, "delete", loc[p].id, 500, "error", "absent", EmptyMap)
    /\ ResumeLeaderTransfer(loc[p].id)
    /\ UNCHANGED <<nreq, conf, storage, mu, phase, prepErr, orch, tick>>

\* lines 315-318: the store is not in the map: answer 500 (and Unlock)
DeleteAbsent(p) ==
    /\ Respond(p, "delete", loc[p].id, 500, "error", "absent", EmptyMap)
    /\ UNCHANGED <<nreq, conf, storage, cluster, mu, phase, prepErr, orch, tick>>

\* lines 314, 319: remember the store's ranges and delete its entry; Lock stays held
DeleteEntry(p) ==
    /\ mu' = [mu EXCEPT !.w = p]
    /\ loc' = [loc EXCEPT ![p].exists = TRUE, ![p].saved = conf[loc[p].id]]
    /\ conf' = MapDelete(conf, loc[p].id)
    /\ Goto(p, "d_resume")
    /\ Quiet
    /\ UNCHANGED <<storage, cluster, phase, prepErr, orch, tick>>

\* lines 312-319: Lock, look the store up
DeleteLock(p) ==
    /\ pc[p] = "d_lock"
    /\ CanLock
    /\ IF loc[p].id \in DOMAIN conf THEN DeleteEntry(p) ELSE DeleteAbsent(p)

\* line 320: resume the store (Lock held)
DeleteResume(p) ==
    /\ pc[p] = "d_resume"
    /\ ResumeLeaderTransfer(loc[p].id)
    /\ Goto(p, "d_persist")
    /\ Quiet
    /\ UNCHANGED <<conf, storage, mu, phase, prepErr, orch, loc, tick>>

\* lines 322-333 and the deferred Unlock: after Persist: put the entry back and
\* pause again (the pause's error is dropped), answer 500; or answer 200 with
\* the no-store message when the map is empty
DeleteAfterPersist(p, saved) ==
    IF saved
    THEN /\ Respond(p, "delete", loc[p].id, 200,
                    IF DOMAIN conf = {} THEN "noStore" ELSE "null", "ok", EmptyMap)
         /\ UNCHANGED <<nreq, conf, cluster, phase, prepErr, orch, tick>>
    ELSE /\ conf' = MapSet(conf, loc[p].id, loc[p].saved)
         /\ \E ok \in BOOLEAN : PauseLeaderTransfer(loc[p].id, ok)
         /\ Respond(p, "delete", loc[p].id, 500, "error", "save", EmptyMap)
         /\ UNCHANGED <<nreq, phase, prepErr, orch, tick>>

\* ------------------------------------------------------------- persist
\* Persist (lines 135-143), called by updateConfig (line 287) and by
\* deleteConfig (line 322): RLock, encode; then save, RUnlock, back to the
\* caller.  RLock waits while any goroutine, the caller included, holds Lock.

\* a variant of the first step that encodes without holding the read lock
PersistEncodeUnlocked(p) ==
    /\ pc[p] \in {"u_persist", "d_persist"}
    /\ CanRLock
    /\ loc' = [loc EXCEPT ![p].snap = conf]
    /\ Goto(p, IF pc[p] = "u_persist" THEN "u_save" ELSE "d_save")
    /\ Quiet
    /\ UNCHANGED <<conf, storage, cluster, mu, phase, prepErr, orch, tick>>

\* lines 136-138: RLock, and the config is encoded as it stands
PersistEncode(p) ==
    /\ pc[p] \in {"u_persist", "d_persist"}
    /\ CanRLock
    /\ mu' = [mu EXCEPT !.r = @ \cup {p}]
    /\ loc' = [loc EXCEPT ![p].snap = conf]
    /\ Goto(p, IF pc[p] = "u_persist" THEN "u_save" ELSE "d_save")
    /\ Quiet
    /\ UNCHANGED <<conf, storage, cluster, phase, prepErr, orch, tick>>

\* lines 139-142: the encoding failed or the save did, or the bytes are saved;
\* the deferred RUnlock; the caller goes on (a delete also runs its deferred
\* Unlock when it answers)
Persist(p) ==
    /\ pc[p] \in {"u_save", "d_save"}
    /\ \E saved \in BOOLEAN :
        /\ SaveSchedulerConfig(loc[p].snap, saved)
        /\ IF pc[p] = "u_save"
           THEN /\ UpdateAfterPersist(p, saved)
                /\ mu' = [mu EXCEPT !.r = @ \ {p}]
           ELSE /\ DeleteAfterPersist(p, saved)
                /\ mu' = [mu EXCEPT !.r = @ \ {p}, !.w = NoProc]

\* ------------------------------------------------------------- list
\* listConfig, line 300: Clone under RLock; the clone holds the same map
ListClone(p) ==
    /\ Begin(p)
    /\ CanRLock
    /\ loc' = [loc EXCEPT ![p].snap = conf]
    /\ Goto(p, "l_render")
    /\ Started
    /\ UNCHANGED <<conf, storage, cluster, mu, phase, prepErr, orch, tick>>

\* a variant of the rendering that also saves the config
ListRenderSaves(p) ==
    /\ pc[p] = "l_render"
    /\ Respond(p, "list", 0, 200, "config", "ok", conf)
    /\ SaveSchedulerConfig(conf, TRUE)
    /\ UNCHANGED <<nreq, conf, cluster, mu, phase, prepErr, orch, tick>>

\* line 301: the clone is rendered, reading the map it shares with the config
ListRender(p) ==
    /\ pc[p] = "l_render"
    /\ Respond(p, "list", 0, 200, "config", "ok", conf)
    /\ UNCHANGED <<nreq, conf, storage, cluster, mu, phase, prepErr, orch, tick>>

\* ------------------------------------------------------------- schedule
\* The cluster as one Schedule call sees it.  Region r has the one key
\* RegionKey(r); a view gives each region its leader store and whether it has
\* a pending operator, is down, or is stale (it passes the region filters but
\* creating an operator for it fails), and the stores the target filter
\* rejects for a reason other than a pause (down, disconnected, busy).
MaxRegion == 2
Regions == 1..MaxRegion
\* the stores of the cluster: those the scheduler can be given and one more,
\* which is never evicted
Peers == 0..(MaxStore + 1)
\* region 1 holds key "b", the others key "z"
RegionKey(r) == IF r = 1 THEN <<98>> ELSE <<122>>
RegionStates == {"ok", "pending", "down", "stale"}
ClusterViews == [leader : [Regions -> Stores], state : [Regions -> RegionStates],
                 unfit : SUBSET Peers]

\* operator.CreateTransferLeaderOperator(..., region, target, ...) returns no error
CreateOk(cl, r) == cl.state[r] # "stale"

\* bytes.Compare(a, b) < 0
RECURSIVE KeyLess(_, _)
KeyLess(a, b) ==
    IF b = <<>> THEN FALSE
    ELSE IF a = <<>> THEN TRUE
    ELSE IF Head(a) # Head(b) THEN Head(a) < Head(b)
    ELSE KeyLess(Tail(a), Tail(b))

\* key lies in one of the ranges [StartKey, EndKey), an empty EndKey being
\* the end of the keyspace
InRanges(key, ranges) ==
    \E i \in 1..Len(ranges) :
        /\ ~KeyLess(key, ranges[i].StartKey)
        /\ (ranges[i].EndKey = <<>> \/ KeyLess(key, ranges[i].EndKey))

\* cluster.RandLeaderRegions(id, ranges): the regions led by the store within
\* the ranges
RandLeaderRegions(cl, id, ranges) ==
    { r \in Regions : cl.leader[r] = id /\ InRanges(RegionKey(r), ranges) }

\* the region filters Schedule passes: no pending operator, not down
PendingFilter(cl, r) == cl.state[r] # "pending"
DownFilter(cl, r) == cl.state[r] # "down"

\* filter.SelectOneRegion(regions, nil, pendingFilter, downFilter): the regions
\* it may return; none (nil) when no region passes both filters
SelectOneRegion(cl, regions) ==
    { r \in regions : PendingFilter(cl, r) /\ DownFilter(cl, r) }

\* cluster.GetFollowerStores(region): the stores holding a replica, the leader
\* excepted
GetFollowerStores(cl, r) == Peers \ {cl.leader[r]}

\* FilterTarget with the StoreStateFilter for leader transfer: the stores whose
\* inbound leader transfer is not paused and that the view does not reject
FilterTarget(cl, nopause, stores) == { t \in stores : t \notin nopause /\ t \notin cl.unfit }

\* lines 234-239: the transfer-leader operator created for a region (its source
\* is the region's leader) and a target store, set to priority High
Operator(region, source, target) ==
    [region |-> region, source |-> source, target |-> target, priority |-> "High"]

\* a variant of the loop body that goes on to every region and target
IterationAll(cl, m, nopause, id) ==
    { { Operator(r, cl.leader[r], t) :
          r \in SelectOneRegion(cl, RandLeaderRegions(cl, id, m[id])),
          t \in Peers \ nopause } }

\* a variant that picks the target among all followers, without FilterTarget
IterationNoTargetFilter(cl, m, nopause, id) ==
    LET regions == SelectOneRegion(cl, RandLeaderRegions(cl, id, m[id]))
    IN  IF regions = {} THEN {{}}
        ELSE UNION { LET targets == GetFollowerStores(cl, r)
                     IN  IF targets = {} \/ ~CreateOk(cl, r) THEN {{}}
                         ELSE { {Operator(r, cl.leader[r], t)} : t \in targets }
                     : r \in regions }

\* a variant that selects the region with the pending filter only
IterationPendingOnly(cl, m, nopause, id) ==
    LET regions == { r \in RandLeaderRegions(cl, id, m[id]) : PendingFilter(cl, r) }
    IN  IF regions = {} THEN {{}}
        ELSE UNION { LET targets == FilterTarget(cl, nopause, GetFollowerStores(cl, r))
                     IN  IF targets = {} \/ ~CreateOk(cl, r) THEN {{}}
                         ELSE { {Operator(r, cl.leader[r], t)} : t \in targets }
                     : r \in regions }

\* lines 224-240, one iteration of the loop: what it may append to ops (a set
\* of no or one operator), each way the random picks can fall
Iteration(cl, m, nopause, id) ==
    LET regions == SelectOneRegion(cl, RandLeaderRegions(cl, id, m[id]))
    IN  IF regions = {} THEN {{}}
        ELSE UNION { LET targets == FilterTarget(cl, nopause, GetFollowerStores(cl, r))
                     IN  IF targets = {} \/ ~CreateOk(cl, r) THEN {{}}
                         ELSE { {Operator(r, cl.leader[r], t)} : t \in targets }
                     : r \in regions }

\* a variant of the loop in which a store that yields no operator ends the
\* pass with nothing
RECURSIVE LoopResultsAborts(_, _, _, _)
LoopResultsAborts(cl, m, nopause, ids) ==
    IF ids = {} THEN {{}}
    ELSE LET id == CHOOSE x \in ids : TRUE
             rest == LoopResultsAborts(cl, m, nopause, ids \ {id})
         IN  { IF one = {} THEN {} ELSE one \cup more :
                 one \in Iteration(cl, m, nopause, id), more \in rest }

\* lines 223-243: the operator sets the loop may return after visiting the
\* stores in ids, one iteration each (the order of the visits does not show
\* in the set of operators)
RECURSIVE LoopResults(_, _, _, _)
LoopResults(cl, m, nopause, ids) ==
    IF ids = {} THEN {{}}
    ELSE LET id == CHOOSE x \in ids : TRUE
             rest == LoopResults(cl, m, nopause, ids \ {id})
         IN  { one \cup more : one \in Iteration(cl, m, nopause, id), more \in rest }

\* what one Schedule call may return on config m
ScheduleResults(cl, m, nopause) == LoopResults(cl, m, nopause, DOMAIN m)

\* Schedule, line 218: a new tick makes the empty ops slice, its capacity the
\* length of the map read with no lock held (the capacity shows nowhere in
\* the result)
ScheduleEnter ==
    /\ tpc = "idle"
    /\ phase = "running"
    /\ tpc' = "s_enter"
    /\ ops' = {}
    /\ UNCHANGED <<conf, storage, cluster, mu, phase, prepErr, orch, pc, loc, last, log,
                   base, nreq>>

\* Schedule, lines 219-220: the tick takes RLock
ScheduleStart ==
    /\ tpc = "s_enter"
    /\ CanRLock
    /\ mu' = [mu EXCEPT !.r = @ \cup {Ticker}]
    /\ tpc' = "s_loop"
    /\ UNCHANGED <<conf, storage, cluster, phase, prepErr, orch, pc, loc, last, log, base,
                   nreq, ops>>

\* lines 221-244: the loop over the configured stores, under RLock, against
\* what the cluster answers during this call; then RUnlock
ScheduleLoop ==
    /\ tpc = "s_loop"
    /\ ops' \in UNION { ScheduleResults(cl, conf, paused) : cl \in ClusterViews }
    /\ mu' = [mu EXCEPT !.r = @ \ {Ticker}]
    /\ tpc' = "idle"
    /\ UNCHANGED <<conf, storage, cluster, phase, prepErr, orch, pc, loc, last, log, base, nreq>>

\* ------------------------------------------------------------- admission
\* the operator counts and leader-schedule limits a call may meet
MaxLimit == 2
\* rejections counted in a run
MaxRejects == 3

\* a variant that also admits a count equal to the limit
AllowedAtLimit(count, limit) == count <= limit

\* line 209: OperatorCount(OpLeader) < GetLeaderScheduleLimit()
Allowed(count, limit) == count < limit

\* IsScheduleAllowed, lines 208-214: compare the operator controller's count
\* of leader operators with the limit; count a rejection
IsScheduleAllowed ==
    \E count \in 0..MaxLimit : \E limit \in 0..MaxLimit :
        LET allowed == Allowed(count, limit)
        IN  /\ (allowed \/ limitCounter < MaxRejects)
            /\ gate' = [count |-> count, limit |-> limit, allowed |-> allowed,
                         asked |-> TRUE]
            /\ limitCounter' = IF allowed THEN limitCounter ELSE limitCounter + 1
            /\ UNCHANGED <<conf, storage, cluster, mu, phase, prepErr, pc, loc, last, log,
                           base, nreq, tick, prepLog, prepRet, asked, call>>

\* ------------------------------------------------------------- system
HandlerStep(p) ==
    \/ \E in \in UpdateInputs : UpdateStart(p, in) /\ UNCHANGED asked
    \/ UpdatePause(p)
    \/ UpdateGetRanges(p)
    \/ UpdateBuild(p)
    \/ UpdateRollback(p)
    \/ UpdateRollbackResume(p)
    \/ \E idStr \in DeleteInputs : DeleteStart(p, idStr)
    \/ DeleteLock(p)
    \/ DeleteResume(p)
    \/ PersistEncode(p)
    \/ Persist(p)
    \/ ListClone(p)
    \/ ListRender(p)

TickStep == ScheduleEnter \/ ScheduleStart \/ ScheduleLoop

Next ==
    \/ PrepareConfig
    \/ CleanConfig
    \/ TickStep
    \/ \E p \in Handlers : HandlerStep(p)

Spec == Init /\ [][Next]_vars

\* The control plane serving one request at a time (no tick): a request is
\* taken up only when no other is being served, and the "ranges" member of
\* each update body is kept in `asked`.
SeqUpdateStart(p) ==
    /\ OthersIdle(p)
    /\ \E in \in UpdateInputs :
           UpdateStart(p, in) /\ asked' = [asked EXCEPT ![p] = in.ranges]
SeqDeleteStart(p) == OthersIdle(p) /\ \E idStr \in DeleteInputs : DeleteStart(p, idStr)
SeqListClone(p) == OthersIdle(p) /\ ListClone(p)

SeqStep(p) ==
    \/ SeqUpdateStart(p)
    \/ UpdatePause(p)
    \/ UpdateGetRanges(p)
    \/ UpdateBuild(p)
    \/ UpdateRollback(p)
    \/ UpdateRollbackResume(p)
    \/ SeqDeleteStart(p)
    \/ DeleteLock(p)
    \/ DeleteResume(p)
    \/ PersistEncode(p)
    \/ Persist(p)
    \/ SeqListClone(p)
    \/ ListRender(p)

SeqNext ==
    \/ PrepareConfig
    \/ \E p \in Handlers : SeqStep(p)

SeqSpec == Init /\ [][SeqNext]_vars

\* The scheduler under its orchestrator alone, loaded from the saved record:
\* prepare, ticks, cleanup, and no control-plane request.
TickNext == PrepareConfig \/ CleanConfig \/ ScheduleEnter \/ ScheduleStart \/ ScheduleLoop
TickSpec == InitPersisted /\ [][TickNext]_vars

\* The slice decoder and BuildWithArgs, each applied once to a config
BuildNext == Decode \/ BuildWithArgs
BuildSpec == InitPersisted /\ [][BuildNext]_vars

\* The admission gate alone: it reads and writes nothing of the config, the
\* lock or the cluster's pause state.
GateSpec == Init /\ [][IsScheduleAllowed]_vars

\* a request that has started keeps being scheduled: the Go scheduler runs every
\* runnable goroutine, and sync.RWMutex lets no waiter starve
RequestStep(p) == pc[p] # "idle" /\ HandlerStep(p)
FairSpec ==
    /\ Spec
    /\ \A p \in Handlers : SF_vars(RequestStep(p))
    /\ SF_vars(ScheduleStart)
    /\ WF_vars(ScheduleLoop)

\* ------------------------------------------------------------- one request alone
\* The outcome of one update or delete request running with no other request
\* in flight, as a function of the shared state S it starts from, of its input
\* r = [op, ok, id, why] and of what the collaborators answer (pok: the pause
\* call, sok: the save).  Result: [S, code, why]; code 0: never answered.
SPause(S, id, ok) ==
    [S EXCEPT !.pauseCalls[id] = @ + 1,
              !.paused = IF ok THEN @ \cup {id} ELSE @]
SResume(S, id) ==
    [S EXCEPT !.resumeCalls[id] = @ + 1, !.paused = @ \ {id}]

SerialUpdate(S, r, pok, sok) ==
    LET exists == r.ok /\ r.id \in DOMAIN S.conf
        pause == r.ok /\ ~exists
        S1 == IF pause THEN SPause(S, r.id, pok) ELSE S
        args == IF ~r.ok THEN <<>>
                ELSE IF exists THEN <<FormatUint(r.id)>> \o getRanges(S.conf, r.id)
                ELSE <<FormatUint(r.id)>>
        a == ParseArgs(args)
        S2 == [S1 EXCEPT !.conf = MapSet(@, a.id, a.ranges)]
    IN  IF r.why = "json" THEN [S |-> S, code |-> 400, why |-> "json"]
        ELSE IF pause /\ ~pok THEN [S |-> S1, code |-> 500, why |-> "pause"]
        ELSE IF a.err THEN [S |-> SResume(S1, r.id), code |-> 400, why |-> "build"]
        ELSE IF sok THEN [S |-> [S2 EXCEPT !.durable = S2.conf], code |-> 200,
                          why |-> "ok"]
        ELSE [S |-> SResume([S2 EXCEPT !.conf = MapDelete(@, r.id)], r.id),
              code |-> 500, why |-> "save"]

SerialDelete(S, r) ==
    IF r.why = "parse" THEN [S |-> S, code |-> 400, why |-> "parse"]
    ELSE IF r.id \notin DOMAIN S.conf THEN [S |-> S, code |-> 500, why |-> "absent"]
    ELSE [S |-> SResume([S EXCEPT !.conf = MapDelete(@, r.id)], r.id),
          code |-> 0, why |-> "blocked"]

SerialRequest(S, r, pok, sok) ==
    IF r.op = "update" THEN SerialUpdate(S, r, pok, sok) ELSE SerialDelete(S, r)

\* running r1 then r2 from S can end in shared state T with the codes given
InOrder(S, r1, r2, T) ==
    \E pok1, sok1, pok2, sok2 \in BOOLEAN :
        LET x == SerialRequest(S, r1, pok1, sok1)
            y == SerialRequest(x.S, r2, pok2, sok2)
        IN  /\ x.code = r1.code
            /\ y.code = r2.code
            /\ y.S = T

\* ------------------------------------------------------------- claims
SharedNext == [conf |-> conf', durable |-> durable', paused |-> paused',
               pauseCalls |-> pauseCalls', resumeCalls |-> resumeCalls']
Entry(m, id) == IF id \in DOMAIN m THEN <<m[id]>> ELSE <<>>
\* handler p answers its request in this step, having run with no other
\* request in flight since it started
AnswersAlone(p) ==
    /\ pc[p] # "idle" /\ pc'[p] = "idle"
    /\ OthersIdle(p) /\ log = <<>>
    /\ phase' = "running"

\* Lemma (checked with the claims): a request that ran with no other request in
\* flight ends as SerialRequest says, for some answers of the collaborators.
SerialMatchesAlone ==
    [][\A p \in Handlers :
        (AnswersAlone(p) /\ last'.op \in {"update", "delete"}) =>
            \E pok, sok \in BOOLEAN :
                SerialRequest(base, [op |-> last'.op, ok |-> loc[p].ok, id |-> last'.id,
                                     code |-> last'.code, why |-> last'.why], pok, sok)
                    = [S |-> SharedNext, code |-> last'.code, why |-> last'.why]]_vars

\* C1: after update and delete requests (none in progress, on a scheduler whose
\* prepare paused every store), for every store the pause calls issued minus
\* the resume calls issued is 1 if the store is in the config and 0 if not.
\* Pause calls that returned an error paused nothing and are left out.
C1_PauseResumeSymmetry ==
    (AllIdle /\ phase = "running" /\ ~prepErr) =>
        \A s \in Stores :
            (pauseCalls[s] - pauseFails[s]) - resumeCalls[s]
                = IF s \in DOMAIN conf THEN 1 ELSE 0

\* C2: whenever no control-plane request is in progress (on a running scheduler
\* whose prepare paused every store), the config, the durable record and the
\* set of paused stores agree, store by store and range list by range list.
C2_StateAgrees ==
    (AllIdle /\ phase = "running" /\ ~prepErr) =>
        /\ DOMAIN conf = DOMAIN durable
        /\ DOMAIN conf = paused
        /\ conf = durable

\* C3: when an update ends because its save failed, the store's entry is what
\* it was before the update (absent, or the previous range list) and a resume
\* was issued only if this request had newly paused the store.
C3_UpdateRollbackRestores ==
    [][\A p \in Handlers :
        (pc[p] = "u_resume" /\ AnswersAlone(p)) =>
            /\ Entry(conf', loc[p].id) = Entry(base.conf, loc[p].id)
            /\ (resumeCalls' # base.resumeCalls => loc[p].didPause)]_vars

\* C4: every request and every tick that starts eventually returns, and the
\* goroutine that returned does not keep the config lock.
C4_EveryRequestReturns ==
    /\ \A p \in Handlers : (pc[p] # "idle") ~> (pc[p] = "idle" /\ mu.w # p)
    /\ (tpc # "idle") ~> (tpc = "idle" /\ Ticker \notin mu.r)

\* Lemma (checked with the claims): in the behaviours in which no delete finds
\* its store in the config, every request and every tick returns.
ReturnsUnlessDeleteFindsStore ==
    (\A p \in Handlers : [](pc[p] # "d_resume")) => C4_EveryRequestReturns

\* C5: a delete of a configured store (entry removed, store resumed, about to
\* save) is answered; when the save succeeds the answer is 200, the store is
\* then absent from the config and from the durable record, and the body is
\* the no-store message exactly when the config is empty.
C5_DeleteSucceeds ==
    \A p \in Handlers :
        (pc[p] = "d_persist") ~>
            (/\ pc[p] = "idle" /\ last.p = p /\ last.op = "delete"
             /\ last.why \in {"ok", "save"}
             /\ (last.why = "ok" =>
                    /\ last.code = 200
                    /\ last.id \notin DOMAIN conf
                    /\ last.id \notin DOMAIN durable
                    /\ (last.body = "noStore") = (DOMAIN conf = {})
                    /\ last.body \in {"noStore", "null"}))

\* C6: a delete of a configured store whose save fails is answered 500 with the
\* entry back in the config and the store paused again.
C6_DeleteRollsBack ==
    \A p \in Handlers :
        (pc[p] = "d_persist") ~>
            (/\ pc[p] = "idle" /\ last.p = p /\ last.op = "delete"
             /\ (last.why # "ok" =>
                    /\ last.code = 500
                    /\ last.id \in DOMAIN conf
                    /\ last.id \in paused))

\* C7: a delete of a store that is not in the config is answered with an error
\* and changes nothing: not the config, the durable record or any store's pause
\* state, and it issues no pause, no resume and no save.
C7_DeleteAbsentChangesNothing ==
    [][\A p \in Handlers :
        (pc[p] = "d_lock" /\ pc'[p] # "d_lock" /\ loc[p].id \notin DOMAIN conf) =>
            /\ pc'[p] = "idle"
            /\ last'.p = p /\ last'.op = "delete" /\ last'.code = 500
            /\ UNCHANGED <<conf, durable, paused, pauseCalls, resumeCalls, saveCalls>>]_vars
C7_Witness == last.op = "delete" /\ last.why = "absent" /\ last.code = 500

\* C8: an update of a store that its lookup did not find issues the pause call
\* before it changes the config; when that call fails the request is answered
\* 500 and the config and the durable record are unchanged, with no resume and
\* no save issued.
C8_PauseFirstAbortOnFailure ==
    [][\A p \in Handlers :
        /\ (pc[p] = "u_pause" /\ pc'[p] # "u_pause") =>
              /\ pauseCalls' = [pauseCalls EXCEPT ![loc[p].id] = @ + 1]
              /\ conf' = conf
        /\ (pc[p] = "u_pause" /\ pc'[p] = "idle") =>
              /\ pauseFails' # pauseFails
              /\ last'.p = p /\ last'.op = "update" /\ last'.code = 500
              /\ UNCHANGED <<conf, durable, resumeCalls, saveCalls>>
        /\ (pc[p] \in {"u_build", "u_persist", "u_save", "u_rollback", "u_resume"}
              /\ loc[p].ok /\ ~loc[p].exists) => loc[p].didPause]_vars
C8_Witness == last.op = "update" /\ last.why = "pause" /\ last.code = 500

\* C9: when build-from-arguments fails in an update, the request is answered
\* with the error, the config and the durable record are unchanged, and the
\* only resume issued is for the store this request had paused: without such
\* a pause no resume is issued and no store's pause state changes.
C9_BuildFailureCompensates ==
    [][\A p \in Handlers :
        (pc[p] = "u_build" /\ pc'[p] = "idle") =>
            /\ last'.p = p /\ last'.code = 400
            /\ UNCHANGED <<conf, durable>>
            /\ IF loc[p].didPause
               THEN resumeCalls' = [resumeCalls EXCEPT ![loc[p].id] = @ + 1]
               ELSE UNCHANGED <<resumeCalls, paused>>
            /\ (AnswersAlone(p) => paused' = base.paused)]_vars

\* C10: two update/delete requests that overlap leave the config, the durable
\* record, the pause state and the pause/resume call counts, and give the
\* responses, that running them one after the other in some order can give.
C10_Serializable ==
    [][(~AllIdle /\ AllIdle' /\ Len(log) = 1 /\ phase' = "running"
          /\ log[1].op \in {"update", "delete"}
          /\ last'.op \in {"update", "delete"}) =>
        LET r1 == log[1]
            r2 == [op |-> last'.op, ok |-> loc[last'.p].ok, id |-> last'.id,
                   code |-> last'.code, why |-> last'.why]
        IN  \/ InOrder(base, r1, r2, SharedNext)
            \/ InOrder(base, r2, r1, SharedNext)]_vars

\* C11: no step changes the store-to-ranges mapping while another goroutine
\* reads it without holding the config lock (here: the list handler rendering
\* its clone, which holds the same map, after Clone's RUnlock).
C11_NoUnlockedAccess ==
    [][conf' # conf => \A p \in Handlers : pc[p] # "l_render"]_vars

\* C12: what list renders is the config as it stood when clone ran, whatever
\* updates and deletes did to the live config in between.
C12_CloneIsSnapshot ==
    [][\A p \in Handlers :
        (pc[p] = "l_render" /\ pc'[p] = "idle") => last'.data = loc[p].snap]_vars

\* the range list an array of range strings stands for
RangesOf(r) == getKeyRanges(r[2]).ranges

\* C13: when a successful update that supplied ranges is followed by a
\* successful update of the same store that supplies different ranges, the
\* store's range list is then exactly the second request's ranges.
C13_SecondRangesInEffect ==
    [][\A p \in Handlers \ {1} :
        (/\ pc[p] # "idle" /\ pc'[p] = "idle"
         /\ last'.op = "update" /\ last'.code = 200
         /\ last.p = p - 1 /\ last.op = "update" /\ last.code = 200
         /\ last.id = loc[p].id
         /\ asked[p] # NoRanges /\ asked[p - 1] # NoRanges
         /\ asked[p] # asked[p - 1]) =>
            /\ loc[p].id \in DOMAIN conf'
            /\ conf'[loc[p].id] = RangesOf(asked[p])]_vars

\* the whole-keyspace range list
Sentinel == <<NewKeyRange(<<>>, <<>>)>>
\* handler p's update has just run BuildWithArgs successfully
Built(p) == pc[p] = "u_build" /\ pc'[p] = "u_persist"

\* C14 (as stated): every update that carries a store id and no ranges sets the
\* store's range list to the single whole-keyspace range.
C14_SentinelAlways ==
    [][\A p \in Handlers :
        (Built(p) /\ loc[p].ok /\ asked[p] = NoRanges) =>
            conf'[loc[p].id] = Sentinel]_vars

\* C14 (amended): an update that carries a store id and no ranges, for a store
\* that is not configured, sets the store's range list to the single
\* whole-keyspace range.
C14_SentinelForNewStore ==
    [][\A p \in Handlers :
        (Built(p) /\ loc[p].ok /\ ~loc[p].exists /\ asked[p] = NoRanges) =>
            /\ loc[p].id \in DOMAIN conf'
            /\ conf'[loc[p].id] = Sentinel]_vars
C14_Witness ==
    \E p \in Handlers :
        /\ pc[p] = "u_persist" /\ loc[p].ok /\ ~loc[p].exists
        /\ asked[p] = NoRanges
        /\ loc[p].id \in DOMAIN conf /\ conf[loc[p].id] = Sentinel

\* C15: a successful update, with no ranges, of a store that was configured
\* leaves the store's range list as it was before the request.
C15_NoRangesKeepsRanges ==
    [][\A p \in Handlers :
        (/\ AnswersAlone(p) /\ last'.op = "update" /\ last'.code = 200
         /\ loc[p].exists /\ asked[p] = NoRanges) =>
            Entry(conf', loc[p].id) = Entry(base.conf, loc[p].id)]_vars

\* C16: the operators one Schedule call returns number at most the configured
\* stores, each has a configured store as its source, and no two have the same
\* source.
C16_AtMostOnePerStore ==
    /\ Cardinality(ops) <= Cardinality(DOMAIN conf)
    /\ \A o \in ops : o.source \in DOMAIN conf
    /\ \A o1, o2 \in ops : o1.source = o2.source => o1 = o2
C16_Witness ==
    /\ tpc = "idle"
    /\ \E o1, o2 \in ops : o1.source # o2.source

\* the leader regions of store id, within its ranges, that are neither pending
\* nor down in the view (operator creation may still fail for them)
EligibleRegions(cl, m, id) ==
    { r \in Regions : /\ cl.leader[r] = id
                      /\ InRanges(RegionKey(r), m[id])
                      /\ cl.state[r] \in {"ok", "stale"} }
\* the followers of region r that are fit and whose leader transfer is not
\* paused
EligibleFollowers(cl, nopause, r) ==
    { t \in Peers : t # cl.leader[r] /\ t \notin nopause /\ t \notin cl.unfit }

\* C17: whatever the cluster answers during a Schedule call, for every
\* configured store with an eligible leader region and an eligible follower,
\* operator creation succeeding, the result holds exactly one operator with
\* that store as source; it moves the leader of an eligible region of the
\* store to an eligible follower, not the store itself, at priority High.
C17_OneOperatorPerEligibleStore ==
    tpc = "s_loop" =>
        \A cl \in ClusterViews : \A res \in ScheduleResults(cl, conf, paused) :
            \A id \in DOMAIN conf :
                (/\ EligibleRegions(cl, conf, id) # {}
                 /\ \A r \in EligibleRegions(cl, conf, id) : EligibleFollowers(cl, paused, r) # {}
                 /\ \A r \in EligibleRegions(cl, conf, id) : cl.state[r] = "ok") =>
                    /\ Cardinality({ o \in res : o.source = id }) = 1
                    /\ \A o \in res : o.source = id =>
                          /\ o.region \in EligibleRegions(cl, conf, id)
                          /\ o.target \in EligibleFollowers(cl, paused, o.region)
                          /\ o.target # id
                          /\ o.priority = "High"
C17_Witness ==
    /\ tpc = "idle" /\ paused # {}
    /\ \E o \in ops : /\ o.source \in DOMAIN conf /\ o.source \in paused
                      /\ o.target \notin paused /\ o.target # o.source
                      /\ o.priority = "High"
                      /\ InRanges(RegionKey(o.region), conf[o.source])
                      /\ conf[o.source] # Sentinel

\* C18: whatever the cluster answers during a Schedule call, a configured
\* store whose leader regions are all pending or down gets no operator, and
\* when that is so for every configured store the result is empty.
C18_NoOperatorWhenAllPendingOrDown ==
    tpc = "s_loop" =>
        \A cl \in ClusterViews : \A res \in ScheduleResults(cl, conf, paused) :
            /\ \A id \in DOMAIN conf :
                  (\A r \in Regions : cl.leader[r] = id =>
                                          cl.state[r] \in {"pending", "down"}) =>
                      \A o \in res : o.source # id
            /\ (\A r \in Regions : cl.leader[r] \in DOMAIN conf =>
                                       cl.state[r] \in {"pending", "down"}) =>
                  res = {}
C18_Witness ==
    /\ tpc = "idle" /\ ops = {} /\ phase = "running"
    /\ DOMAIN conf # {} /\ DOMAIN conf \subseteq paused

\* C19: a call of IsScheduleAllowed answers true exactly when the count of
\* leader operators it read is below the leader-schedule limit it read; a call
\* that answers false adds one to the rejection counter and a call that
\* answers true leaves the counter as it was.
C19_AdmissionGate ==
    [][/\ gate'.asked
       /\ gate'.allowed = (gate'.count < gate'.limit)
       /\ (gate'.count = gate'.limit => ~gate'.allowed)
       /\ limitCounter' = IF gate'.allowed THEN limitCounter ELSE limitCounter + 1]_vars
C19_Witness ==
    /\ gate.asked /\ gate.limit > 0 /\ gate.count = gate.limit
    /\ ~gate.allowed /\ limitCounter = 2

\* the positions of the failed calls of the prepare log
FailedCalls == { i \in 1..Len(prepLog) : ~prepLog[i].ok }
\* the last of them
LastFailed == CHOOSE i \in FailedCalls : \A j \in FailedCalls : j <= i

\* C20: once PrepareConfig has run, it has made exactly one pause call for
\* every configured store, whether or not earlier calls failed; it returned
\* no error exactly when no call failed, and otherwise the error of the last
\* call that failed.
C20_PrepareCallsEveryStore ==
    phase # "new" =>
        /\ \A s \in DOMAIN conf : CallsFor(prepLog, s) = 1
        /\ \A i \in 1..Len(prepLog) : prepLog[i].id \in DOMAIN conf
        /\ (prepRet = NoErr) <=> (FailedCalls = {})
        /\ FailedCalls # {} => prepRet = ErrOf(prepLog[LastFailed].id)
C20_Witness ==
    /\ phase = "running"
    /\ Len(prepLog) = 2 /\ ~prepLog[1].ok /\ prepLog[2].ok
    /\ prepRet = ErrOf(prepLog[1].id)
    /\ prepLog[2].id \in paused

\* C21: a CleanConfig call issues one resume call for each store that is a
\* key of the config when it runs, none for any other store, and leaves the
\* config as it was.
C21_CleanResumesConfigured ==
    [][(phase = "running" /\ phase' = "stopped") =>
          /\ \A s \in Stores :
                resumeCalls'[s] = resumeCalls[s] + (IF s \in DOMAIN conf THEN 1 ELSE 0)
          /\ conf' = conf]_vars
C21_Witness ==
    /\ phase = "stopped"
    /\ \E s \in DOMAIN conf : resumeCalls[s] = 1
    /\ \E t \in Stores \ DOMAIN conf : resumeCalls[t] = 0

\* the status an update or delete response carries is the one of its outcome
StatusMatches(r) ==
    /\ r.op \in {"update", "delete"}
    /\ r.code = CASE r.why = "ok" -> 200
                  [] r.why \in {"json", "build", "parse"} -> 400
                  [] r.why \in {"pause", "save", "absent"} -> 500
                  [] OTHER -> 0
    /\ (r.op = "update" => r.why \in {"ok", "json", "build", "pause", "save"})
    /\ (r.op = "delete" => r.why \in {"ok", "parse", "absent", "save"})

\* Lemma (checked with the claims): every response an update or a delete
\* writes carries the status of its outcome.
WrittenStatusMatches ==
    [][(last' # last /\ last'.op \in {"update", "delete"}) => StatusMatches(last')]_vars

\* C22: every update and every delete that is being served is answered, by one
\* response whose status is the one of its outcome (200 success; 400 input
\* rejected; 500 pause failed, save failed or entry absent).
C22_AnsweredWithMatchingStatus ==
    \A p \in Handlers :
        (pc[p] \notin {"idle", "l_render"}) ~>
            (pc[p] = "idle" /\ last.p = p /\ StatusMatches(last))

\* a string of decimal digits, and a string that is a valid query escape
IsNumeral(str) == str # <<>> /\ \A i \in 1..Len(str) : IsDigit(str[i])
Unescapes(str) == ~QueryUnescape(str).err
\* the range arguments (those after the store id) of an argument list, and
\* how many of them are consumed two at a time
RangeArgsOf(args) == IF args = <<>> THEN <<>> ELSE Tail(args)
PairedCount(args) == 2 * (Len(RangeArgsOf(args)) \div 2)
\* BuildWithArgs has just been called on its own
BuildCalled == call.by = "none" /\ call'.by = "build"

\* C23 (as stated): BuildWithArgs fails when the argument list is empty, when
\* the first argument is not a non-negative integer, or when any range
\* argument cannot be unescaped, and a failed call leaves the mapping as it
\* was.
C23_FailsOnAnyBadArgument ==
    [][BuildCalled =>
          /\ (\/ call'.args = <<>>
               \/ ~IsNumeral(Head(call'.args))
               \/ \E i \in 1..Len(RangeArgsOf(call'.args)) :
                      ~Unescapes(RangeArgsOf(call'.args)[i])) => call'.err
          /\ call'.err => conf' = conf]_vars

\* C23 (amended): BuildWithArgs fails exactly when the argument list is empty,
\* the first argument is not a non-negative integer, or an argument of a
\* (start, end) pair cannot be unescaped; a failed call leaves the mapping as
\* it was.
C23_FailsOnBadPairedArgument ==
    [][BuildCalled =>
          /\ call'.err <=>
                (\/ call'.args = <<>>
                 \/ ~IsNumeral(Head(call'.args))
                 \/ \E i \in 1..PairedCount(call'.args) :
                        ~Unescapes(RangeArgsOf(call'.args)[i]))
          /\ call'.err => conf' = conf]_vars
C23_Witness ==
    /\ call.by = "build" /\ call.err
    /\ Len(call.args) = 3 /\ IsNumeral(Head(call.args))
    /\ Head(call.args) = FormatUint(1)
    /\ 1 \in DOMAIN conf /\ conf[1] = <<NewKeyRange(<<97>>, <<109>>)>>

\* the ranges the claim has stored for an argument list: the i-th of them made
\* of the unescaped range arguments 2i-1 and 2i, or the whole keyspace
ExpectedRanges(args) ==
    LET rest == RangeArgsOf(args)
        k == Len(rest) \div 2
    IN  IF k = 0 THEN Sentinel
        ELSE [i \in 1..k |-> NewKeyRange(QueryUnescape(rest[2 * i - 1]).val,
                                         QueryUnescape(rest[2 * i]).val)]

\* C27: when the slice decoder or BuildWithArgs is given a store id followed by
\* n arguments that all unescape, it succeeds and the store's range list is
\* then: floor(n/2) ranges in argument order, each of two consecutive
\* arguments as start and end, a leftover argument dropped; or the single
\* whole-keyspace range when floor(n/2) is 0.
C27_RangesFromArgumentPairs ==
    [][(/\ call.by = "none" /\ call'.by \in {"decoder", "build"}
        /\ call'.args # <<>>
        /\ IsNumeral(Head(call'.args))
        /\ \A i \in 1..Len(RangeArgsOf(call'.args)) :
              Unescapes(RangeArgsOf(call'.args)[i])) =>
            /\ ~call'.err
            /\ DigitsValue(Head(call'.args), 0) \in DOMAIN conf'
            /\ conf'[DigitsValue(Head(call'.args), 0)] = ExpectedRanges(call'.args)]_vars
C27_Witness ==
    /\ call.by = "build" /\ ~call.err /\ Len(call.args) = 1 + MaxArgs
    /\ \E s \in DOMAIN conf :
          /\ Len(conf[s]) = MaxArgs \div 2
          /\ conf[s][1].StartKey # conf[s][1].EndKey
          /\ conf[s][1] # conf[s][2]

\* C24: every store that is a key of the config has at least one range.
C24_EveryStoreHasARange ==
    \A s \in DOMAIN conf : Len(conf[s]) >= 1
C24_Witness ==
    /\ last.op = "update" /\ last.code = 200
    /\ Cardinality(DOMAIN conf) = 2
    /\ \A s \in DOMAIN conf : Len(conf[s]) = 1
    /\ \E s \in DOMAIN conf : conf[s] # Sentinel

\* a step of a list request, and a step of a Schedule call
ListSteps ==
    \E p \in Handlers : pc'[p] # pc[p] /\ (pc[p] = "l_render" \/ pc'[p] = "l_render")
ScheduleSteps == tpc' # tpc

\* C25: no step of a list request or of a Schedule call changes the config,
\* the durable record or any store's pause state, and none issues a pause, a
\* resume or a save.
C25_ListAndScheduleReadOnly ==
    [][(ListSteps \/ ScheduleSteps) =>
          /\ conf' = conf /\ durable' = durable /\ paused' = paused
          /\ pauseCalls' = pauseCalls /\ resumeCalls' = resumeCalls
          /\ saveCalls' = saveCalls]_vars
C25_Witness ==
    /\ last.op = "list" /\ last.code = 200 /\ DOMAIN last.data # {}
    /\ tpc = "idle" /\ ops # {}
    /\ durable # conf

\* store id yields an operator in view cl whichever way the picks fall: it
\* has regions passing the region filters, and each of them has a follower
\* passing the target filter and an operator that can be created
SureToSucceed(cl, m, nopause, id) ==
    /\ EligibleRegions(cl, m, id) # {}
    /\ \A r \in EligibleRegions(cl, m, id) :
          EligibleFollowers(cl, nopause, r) # {} /\ cl.state[r] = "ok"
\* store id yields none whichever way the picks fall: no region passes the
\* filters, or none of those has a follower passing the target filter and an
\* operator that can be created
SureToFail(cl, m, nopause, id) ==
    \A r \in EligibleRegions(cl, m, id) :
        EligibleFollowers(cl, nopause, r) = {} \/ cl.state[r] = "stale"

\* C26: whatever the cluster answers during a Schedule call, a configured
\* store that fails at some step has no operator in the result, and every
\* configured store that succeeds at every step has one, whatever happens to
\* the other stores.
C26_FailureSkipsOnlyThatStore ==
    tpc = "s_loop" =>
        \A cl \in ClusterViews : \A res \in ScheduleResults(cl, conf, paused) :
            \A id \in DOMAIN conf :
                /\ SureToFail(cl, conf, paused, id) => \A o \in res : o.source # id
                /\ SureToSucceed(cl, conf, paused, id) => \E o \in res : o.source = id
C26_Witness ==
    /\ tpc = "idle" /\ Cardinality(ops) = 1
    /\ Cardinality(DOMAIN conf) = 2
    /\ \E o \in ops : o.target \notin DOMAIN conf

\* the pauses of store s that succeeded and that no resume has matched yet
OpenPauses(s) == (pauseCalls[s] - pauseFails[s]) - resumeCalls[s]

\* C28: a resume is issued for a store only while a successful pause the
\* scheduler issued for that store is still unmatched by a resume.
C28_ResumeOnlyAfterOwnPause ==
    [][\A s \in Stores :
          resumeCalls'[s] > resumeCalls[s] => OpenPauses(s) > 0]_vars

\* the same for the resumes issued by the request handlers alone, in runs
\* where every pause of PrepareConfig succeeded
ResumeInHandlersOnlyAfterOwnPause ==
    [][~prepErr /\ phase' = phase =>
          \A s \in Stores :
              resumeCalls'[s] > resumeCalls[s] => OpenPauses(s) > 0]_vars

\* the step on which a Schedule call returns its operators
ScheduleReturns == tpc = "s_loop" /\ tpc' = "idle"

\* C29: with a target filter that rejects every paused store, no operator
\* returned by Schedule has a key of the config as its target.
C29_NoOperatorTargetsConfiguredStore ==
    [][ScheduleReturns => \A o \in ops' : o.target \notin DOMAIN conf]_vars

\* the same in runs where every pause of PrepareConfig succeeded
NoConfiguredTargetAfterGoodPrepare ==
    [][ScheduleReturns /\ ~prepErr =>
          \A o \in ops' : o.target \notin DOMAIN conf]_vars

\* C30 as stated: from the start of a Schedule call to its return no step
\* changes the config.
C30_NoMutationDuringScheduleCall ==
    [][tpc # "idle" => conf' = conf]_vars

\* C30 amended: from the moment Schedule holds the read lock to its return no
\* step changes the config, so the operators it returns are computed from one
\* mapping; before the lock is taken, while the capacity is read, a mutation
\* can still take effect.
C30_NoMutationWhileScheduleHoldsLock ==
    [][tpc = "s_loop" =>
          /\ conf' = conf
          /\ tpc' = "idle" => ops' \in UNION { ScheduleResults(cl, conf, paused) :
                                                  cl \in ClusterViews }]_vars
C30_Witness ==
    /\ tpc = "s_loop" /\ Ticker \in mu.r
    /\ \E p \in Handlers : pc[p] = "u_build" /\ ~ParseArgs(loc[p].args).err
    /\ \E p \in Handlers : pc[p] = "d_lock"

\* C32: once CleanConfig has returned and no request is being served any
\* more, no store is paused.
C32_NothingPausedAfterCleanup ==
    (phase = "stopped" /\ AllIdle) => paused = {}

\* handler p's Persist takes the read lock and encodes, and handler p's
\* Persist returns
Encodes(p) == pc[p] \in {"u_persist", "d_persist"} /\ pc'[p] \in {"u_save", "d_save"}
Saves(p) == pc[p] \in {"u_save", "d_save"} /\ pc'[p] # pc[p]

\* C31: Persist encodes the whole mapping at an instant at which no goroutine
\* holds the write lock; the mapping a save carries is still the in-memory
\* mapping when the save is made, so no save carries a mapping older than one
\* saved before it; the durable record changes only by such a save, and an
\* update answered 200 leaves it equal to the mapping its Persist encoded.
C31_SaveCarriesCurrentMapping ==
    [][/\ \A p \in Handlers :
            /\ Encodes(p) => mu.w = NoProc /\ loc'[p].snap = conf
            /\ Saves(p) =>
                  /\ loc[p].snap = conf
                  /\ durable' \in {durable, loc[p].snap}
                  /\ (last'.p = p /\ last'.code = 200) => durable' = loc[p].snap
       /\ durable' # durable => \E p \in Handlers : Saves(p)]_vars
C31_Witness ==
    \E p, q \in Handlers :
        /\ pc[p] = "idle" /\ last.p = p /\ last.op = "update" /\ last.code = 200
        /\ saveCalls = 1
        /\ pc[q] = "u_save" /\ q \in mu.r
        /\ loc[q].snap = conf /\ durable # conf
        /\ DOMAIN durable \subseteq DOMAIN conf

====
